---- MODULE Spec2Model ----
(***************************************************************************)
(* Chess Platform API: the record schemas (schemas.py), the create/list    *)
(* handlers and the closest-rating matchmaking scan (main.py), over a      *)
(* document store reached through create_document / get_documents.         *)
(*                                                                         *)
(* A document is a function from field names to values.  An ObjectId is a  *)
(* natural number; str(ObjectId) is its fixed-width lowercase hexadecimal  *)
(* rendering.  A request payload is a function too: an omitted field is a  *)
(* field name outside its DOMAIN, so the schema defaults are applied as    *)
(* pydantic applies them.                                                  *)
(***************************************************************************)
EXTENDS Integers, Sequences, FiniteSets, TLC

VARIABLES
    connected,  \* database.db is not None (fixed when the process starts)
    store,      \* collection name -> sequence of stored documents, in insertion order
    nextOid,    \* the ObjectId the store generates for the next insert
    issued,     \* the {"id": ...} answers the create handlers have returned
    resp        \* the answer to the latest request

vars == <<connected, store, nextOid, issued, resp>>

\* ------------------------------------------------------------------ bounds

\* At most MaxDocs documents are inserted in a run of Spec.
MaxDocs == 2
\* At most MaxUsers users are inserted in a run of SpecUsers.
MaxUsers == 3
\* The limit query parameter ranges over 0..MaxLimit.
MaxLimit == 2
\* The first ObjectId the store hands out (chosen so that the hexadecimal
\* rendering carries from "...0f" to "...10" within a run).
OidBase == 14

\* ------------------------------------------------------------- identifiers

\* str(ObjectId) is 24 hexadecimal characters.
OidHexLen == 24

HexDigits == <<"0", "1", "2", "3", "4", "5", "6", "7",
               "8", "9", "a", "b", "c", "d", "e", "f">>

RECURSIVE Zeros(_)
Zeros(w) == IF w = 0 THEN "" ELSE "0" \o Zeros(w - 1)

\* The zero padding of each width, computed once.
ZeroPad == [w \in 0..OidHexLen |-> Zeros(w)]

\* n in hexadecimal, zero-padded to w characters (the low w digits of n).
RECURSIVE Hex(_, _)
Hex(n, w) == IF n = 0 THEN ZeroPad[w]
             ELSE IF w = 0 THEN ""
             ELSE Hex(n \div 16, w - 1) \o HexDigits[(n % 16) + 1]

\* A rendering that keeps only the high-order characters of the identifier.
StrOidTruncated(o) == Hex(o \div 16, OidHexLen - 1)

\* str(d["_id"]): the external identifier of an ObjectId.
StrOid(o) == Hex(o, OidHexLen)

\* ------------------------------------------------------------------ schemas

Collections == {"user", "game", "puzzle", "lesson", "chatmessage"}

Has(p, f) == f \in DOMAIN p
Get(p, f, default) == IF Has(p, f) THEN p[f] ELSE default

\* rating: int = Field(1200, ge=100, le=4000), with the upper bound dropped.
RatingOKNoUpper(p) == Has(p, "rating") => p.rating >= 100

\* rating: int = Field(1200, ge=100, le=4000)
RatingOK(p) == Has(p, "rating") => (p.rating >= 100 /\ p.rating <= 4000)

\* username: str = Field(..., min_length=3, max_length=32)
UsernameOK(p) == Has(p, "username") /\ Len(p.username) >= 3 /\ Len(p.username) <= 32

\* User(**payload) raises no ValidationError.
UserValid(p) ==
    /\ UsernameOK(p)
    /\ Has(p, "display_name") => Len(p.display_name) <= 64
    /\ RatingOK(p)

None == "None"

\* User(**payload).model_dump(): the defaults filled in.
UserDoc(p) ==
    [username     |-> p.username,
     display_name |-> Get(p, "display_name", None),
     email        |-> Get(p, "email", None),
     rating       |-> Get(p, "rating", 1200),
     country      |-> Get(p, "country", None)]

\* class CreateGameRequest: white_id and black_id are required.
GameRequestValid(p) == Has(p, "white_id") /\ Has(p, "black_id")

\* Game(white_id=..., black_id=..., time_control=..., increment=...)
\* raises no ValidationError: time_control is one of the Literal values and
\* increment satisfies ge=0, le=60.  The request's defaults are "blitz" and 0.
GameValid(p) ==
    /\ GameRequestValid(p)
    /\ Get(p, "time_control", "blitz") \in {"bullet", "blitz", "rapid", "classical"}
    /\ Get(p, "increment", 0) >= 0
    /\ Get(p, "increment", 0) <= 60

StartFen == "rn1qkbnr/pp3ppp/2p1p3/3p4/3P4/2N1PN2/PPP2PPP/R1BQKB1R w KQkq - 0 1"

\* Game(...).model_dump()
GameDoc(p) ==
    [white_id      |-> p.white_id,
     black_id      |-> p.black_id,
     status        |-> "ongoing",
     time_control  |-> Get(p, "time_control", "blitz"),
     increment     |-> Get(p, "increment", 0),
     fen           |-> StartFen,
     moves         |-> <<>>,
     turn          |-> "w",
     white_time_ms |-> 300000,
     black_time_ms |-> 300000]

\* Puzzle: fen and moves are required, themes and rating have defaults.
PuzzleValid(p) == Has(p, "fen") /\ Has(p, "moves")

PuzzleDoc(p) ==
    [fen    |-> p.fen,
     moves  |-> p.moves,
     themes |-> Get(p, "themes", <<>>),
     rating |-> Get(p, "rating", 1000)]

\* Lesson: title and content are required, topic and difficulty are Literals.
LessonValid(p) ==
    /\ Has(p, "title") /\ Has(p, "content")
    /\ Get(p, "topic", "basics") \in
           {"openings", "strategy", "tactics", "endgames", "basics"}
    /\ Get(p, "difficulty", "beginner") \in {"beginner", "intermediate", "advanced"}

LessonDoc(p) ==
    [title      |-> p.title,
     content    |-> p.content,
     topic      |-> Get(p, "topic", "basics"),
     difficulty |-> Get(p, "difficulty", "beginner")]

\* ChatMessage: game_id, user_id and text are required.
ChatValid(p) == Has(p, "game_id") /\ Has(p, "user_id") /\ Has(p, "text")

ChatDoc(p) == [game_id |-> p.game_id, user_id |-> p.user_id, text |-> p.text]

\* ------------------------------------------------------------ store adapter

\* A filter with no field: it matches every document.
EmptyFilter == [f \in {} |-> None]

Matches(d, filt) == \A f \in DOMAIN filt : Has(d, f) /\ d[f] = filt[f]

Min(a, b) == IF a <= b THEN a ELSE b

Take(s, n) == SubSeq(s, 1, Min(n, Len(s)))

\* query(collection, filter): the matching documents, in the store's order.
query(coll, filt) ==
    LET Match(d) == Matches(d, filt) IN SelectSeq(store[coll], Match)

\* get_documents(collection, filter, limit): at most `limit` matching documents.
get_documents(coll, filt, limit) == Take(query(coll, filt), limit)

\* get_documents(collection): no filter and no limit, the whole collection.
get_all_documents(coll) == query(coll, EmptyFilter)

Answer(op, kind, req, status, body) ==
    [op |-> op, kind |-> kind, req |-> req, status |-> status, body |-> body]

\* A request that fails leaves the store as it was.
Fails(op, kind, req, status) ==
    /\ resp' = Answer(op, kind, req, status, <<>>)
    /\ UNCHANGED <<connected, store, nextOid, issued>>

\* insert(collection, document): the store generates a new identifier and
\* appends the document under it.
insert(coll, doc) ==
    /\ store' = [store EXCEPT ![coll] = Append(@, ("_id" :> nextOid) @@ doc)]
    /\ nextOid' = nextOid + 1

\* create_document that inserts without looking at the connection.
create_document_unchecked(kind, coll, valid, doc, req) ==
    IF ~valid THEN Fails("create", kind, req, "ValidationError")
    ELSE /\ insert(coll, doc)
         /\ issued' = issued \cup {[kind |-> kind, id |-> StrOid(nextOid), record |-> doc]}
         /\ resp' = Answer("create", kind, req, "ok", StrOid(nextOid))
         /\ UNCHANGED connected

\* create_document(collection, record), as a create handler calls it and
\* returns its result: StoreUnavailable without a live connection; otherwise
\* the document is inserted and the string form of its identifier returned.
\* FastAPI (or the handler) has validated the payload before the call.
create_document(kind, coll, valid, doc, req) ==
    IF ~valid THEN Fails("create", kind, req, "ValidationError")
    ELSE IF ~connected THEN Fails("create", kind, req, "StoreUnavailable")
    ELSE /\ insert(coll, doc)
         /\ issued' = issued \cup {[kind |-> kind, id |-> StrOid(nextOid), record |-> doc]}
         /\ resp' = Answer("create", kind, req, "ok", StrOid(nextOid))
         /\ UNCHANGED connected

\* ----------------------------------------------------------------- handlers

\* d["id"] = str(d["_id"]): the identifier is copied and the raw field stays.
NormalizeKeepsRaw(d) == ("id" :> StrOid(d["_id"])) @@ d

\* d["id"] = str(d.pop("_id"))
Normalize(d) ==
    ("id" :> StrOid(d["_id"])) @@ [f \in DOMAIN d \ {"_id"} |-> d[f]]

\* for d in docs: d["id"] = str(d.pop("_id")); return docs
NormalizeAll(docs) == [i \in 1..Len(docs) |-> Normalize(docs[i])]

\* A list handler: get_documents, then the identifier rewrite.
ListDocs(kind, coll, filt, limit, req) ==
    IF ~connected THEN Fails("list", kind, req, "StoreUnavailable")
    ELSE /\ resp' = Answer("list", kind, req, "ok",
                           NormalizeAll(get_documents(coll, filt, limit)))
         /\ UNCHANGED <<connected, store, nextOid, issued>>

create_user(p) ==
    /\ create_document("user", "user", UserValid(p), UserDoc(p), p)

list_users(q) ==
    /\ ListDocs("user", "user", EmptyFilter, Get(q, "limit", 20), q)

\* create_game with the document written to the user collection.
create_game_wrong_collection(p) ==
    /\ create_document("game", "user", GameValid(p), GameDoc(p), p)

create_game(p) ==
    /\ create_document("game", "game", GameValid(p), GameDoc(p), p)

\* list_games reading the user collection.
list_games_wrong_collection(q) ==
    /\ ListDocs("game", "user", EmptyFilter, Get(q, "limit", 20), q)

list_games(q) ==
    /\ ListDocs("game", "game", EmptyFilter, Get(q, "limit", 20), q)

create_puzzle(p) ==
    /\ create_document("puzzle", "puzzle", PuzzleValid(p), PuzzleDoc(p), p)

list_puzzles(q) ==
    /\ ListDocs("puzzle", "puzzle", EmptyFilter, Get(q, "limit", 20), q)

create_lesson(p) ==
    /\ create_document("lesson", "lesson", LessonValid(p), LessonDoc(p), p)

list_lessons(q) ==
    /\ ListDocs("lesson", "lesson", EmptyFilter, Get(q, "limit", 20), q)

post_chat(p) ==
    /\ create_document("chatmessage", "chatmessage", ChatValid(p), ChatDoc(p), p)

\* filt = {"game_id": game_id} if game_id else {}: an omitted and an empty
\* game_id both give the empty filter.
ChatFilter(q) ==
    IF Has(q, "game_id") /\ q.game_id # "" THEN [game_id |-> q.game_id]
    ELSE EmptyFilter

list_chat(q) ==
    /\ ListDocs("chatmessage", "chatmessage", ChatFilter(q), Get(q, "limit", 50), q)

\* -------------------------------------------------------------- matchmaking

\* The first loop with `me = u` outside the test: me ends as the last user.
FindMeLast(users, user_id, i) == Len(users)

\* The first loop: the index of the first user whose str(_id) is user_id,
\* 0 when there is none (me = None).
RECURSIVE FindMe(_, _, _)
FindMe(users, user_id, i) ==
    IF i > Len(users) THEN 0
    ELSE IF StrOid(users[i]["_id"]) = user_id THEN i
    ELSE FindMe(users, user_id, i + 1)

Abs(x) == IF x < 0 THEN -x ELSE x

\* The difference without abs().
RatingDiffSigned(u, me) == Get(u, "rating", 1200) - Get(me, "rating", 1200)

\* diff = abs(int(u.get("rating", 1200)) - int(me.get("rating", 1200)))
RatingDiff(u, me) == Abs(Get(u, "rating", 1200) - Get(me, "rating", 1200))

\* if diff <= best_diff: a later user with an equal difference replaces best.
CloserOrEqual(diff, best_diff) == diff <= best_diff

\* if diff < best_diff
Closer(diff, best_diff) == diff < best_diff

\* The second loop without the `continue` that skips the requester.
RECURSIVE ScanNoSkip(_, _, _, _, _, _)
ScanNoSkip(users, user_id, me, i, best, best_diff) ==
    IF i > Len(users) THEN best
    ELSE IF Closer(RatingDiff(users[i], me), best_diff)
         THEN ScanNoSkip(users, user_id, me, i + 1, i, RatingDiff(users[i], me))
    ELSE ScanNoSkip(users, user_id, me, i + 1, best, best_diff)

\* The second loop, from index i on, with best (an index, 0 for None) and
\* best_diff as they stand; the result is the final best.
RECURSIVE Scan(_, _, _, _, _, _)
Scan(users, user_id, me, i, best, best_diff) ==
    IF i > Len(users) THEN best
    ELSE IF StrOid(users[i]["_id"]) = user_id
         THEN Scan(users, user_id, me, i + 1, best, best_diff)
    ELSE IF Closer(RatingDiff(users[i], me), best_diff)
         THEN Scan(users, user_id, me, i + 1, i, RatingDiff(users[i], me))
    ELSE Scan(users, user_id, me, i + 1, best, best_diff)

\* best_diff = 10**9
InitialBestDiff == 1000000000

\* The opponent summary of the answer.
Opponent(u) ==
    [id |-> StrOid(u["_id"]), username |-> Get(u, "username", None),
     rating |-> Get(u, "rating", 1200)]

matchmake(req) ==
    IF ~connected THEN Fails("matchmake", "user", req, "StoreUnavailable")
    ELSE LET users == get_all_documents("user")
             me    == FindMe(users, req.user_id, 1)
             best  == Scan(users, req.user_id, users[me], 1, 0, InitialBestDiff)
         IN  IF me = 0 THEN Fails("matchmake", "user", req, "UserNotFound")
             ELSE /\ resp' = Answer("matchmake", "user", req, "ok",
                                    IF best = 0 THEN [found |-> FALSE]
                                    ELSE [found |-> TRUE, opponent |-> Opponent(users[best])])
                  /\ UNCHANGED <<connected, store, nextOid, issued>>

\* ------------------------------------------------------------------- inputs

\* Spec: every record kind, with users rated at the bounds of the range.
UserPayloads ==
    [username : {"bob"}, rating : {99, 100, 4000, 4001}]
    \cup {[username |-> "bob"], [username |-> "al"]}

\* SpecUsers: users only, with ratings that differ and tie.
RatedUserPayloads ==
    [username : {"bob"}, rating : {99, 100, 1100, 1300, 1500, 4000, 4001}]
    \cup {[username |-> "bob"], [username |-> "al"],
          [username |-> "al", rating |-> 1300], [rating |-> 1300]}

GamePayloads ==
    {[white_id |-> "w", black_id |-> "b"],
     [white_id |-> "w", black_id |-> "b", time_control |-> "hyper"],
     [white_id |-> "w", black_id |-> "b", increment |-> 61]}

PuzzlePayloads ==
    {[fen |-> "8/8/8/8/8/8/8/K6k w - - 0 1", moves |-> <<"e2e4">>],
     [fen |-> "8/8/8/8/8/8/8/K6k w - - 0 1"]}

LessonPayloads ==
    {[title |-> "Forks", content |-> "..."],
     [title |-> "Forks", content |-> "...", topic |-> "blunders"]}

ChatPayloads ==
    [game_id : {"g1", "g2"}, user_id : {"u"}, text : {"hi"}] \cup {[game_id |-> "g1"]}

Limits == 0..MaxLimit

ListQueries == {EmptyFilter} \cup [limit : Limits]

ChatQueries ==
    ListQueries \cup [game_id : {"", "g1"}, limit : Limits] \cup {[game_id |-> "g1"]}

IdStrings(n) == {StrOid(o) : o \in OidBase..(OidBase + n - 1)} \cup {"nonexistent"}

MatchRequests == [user_id : IdStrings(MaxDocs)]

UserMatchRequests == [user_id : IdStrings(MaxUsers)]

\* ------------------------------------------------------------ specification

NoAnswer == Answer("none", "none", EmptyFilter, "none", <<>>)

Init ==
    /\ connected \in BOOLEAN
    /\ store = [c \in Collections |-> <<>>]
    /\ nextOid = OidBase
    /\ issued = {}
    /\ resp = NoAnswer

\* The run's bound on insertions: a create that would exceed it is not taken.
Within(cap) == nextOid' - OidBase <= cap

CreateUser == \E p \in UserPayloads : create_user(p) /\ Within(MaxDocs)
ListUsers == \E q \in ListQueries : list_users(q)
CreateGame == \E p \in GamePayloads : create_game(p) /\ Within(MaxDocs)
ListGames == \E q \in ListQueries : list_games(q)
CreatePuzzle == \E p \in PuzzlePayloads : create_puzzle(p) /\ Within(MaxDocs)
ListPuzzles == \E q \in ListQueries : list_puzzles(q)
CreateLesson == \E p \in LessonPayloads : create_lesson(p) /\ Within(MaxDocs)
ListLessons == \E q \in ListQueries : list_lessons(q)
PostChat == \E p \in ChatPayloads : post_chat(p) /\ Within(MaxDocs)
ListChat == \E q \in ChatQueries : list_chat(q)
Matchmake == \E r \in MatchRequests : matchmake(r)

Next ==
    \/ CreateUser
    \/ ListUsers
    \/ CreateGame
    \/ ListGames
    \/ CreatePuzzle
    \/ ListPuzzles
    \/ CreateLesson
    \/ ListLessons
    \/ PostChat
    \/ ListChat
    \/ Matchmake

Spec == Init /\ [][Next]_vars

\* Users only: create_user, list_users and matchmake.
CreateRatedUser == \E p \in RatedUserPayloads : create_user(p) /\ Within(MaxUsers)
MatchmakeUsers == \E r \in UserMatchRequests : matchmake(r)

NextUsers ==
    \/ CreateRatedUser
    \/ ListUsers
    \/ MatchmakeUsers

SpecUsers == Init /\ [][NextUsers]_vars

\* ------------------------------------------------------------- the requests
\* What the latest answer was an answer to.

IsList == resp.op = "list" /\ resp.status = "ok"
IsMatch == resp.op = "matchmake" /\ resp.status = "ok"

\* The filter and the limit of the latest list request.
ReqFilter == IF resp.kind = "chatmessage" THEN ChatFilter(resp.req) ELSE EmptyFilter
ReqLimit == Get(resp.req, "limit", IF resp.kind = "chatmessage" THEN 50 ELSE 20)

\* An entry of a list answer without its id.
EntryFields(e) == [f \in DOMAIN e \ {"id"} |-> e[f]]

\* A list answer holds the record that create answered with c.
Lists(body, c) ==
    \E i \in 1..Len(body) :
        /\ Has(body[i], "id")
        /\ body[i].id = c.id
        /\ EntryFields(body[i]) = c.record

Users == store["user"]
UserIdx == 1..Len(Users)
ExtId(d) == StrOid(d["_id"])
\* The requester and the other users of the latest matchmake request.
MeIdx == {i \in UserIdx : ExtId(Users[i]) = resp.req.user_id}
OtherIdx == UserIdx \ MeIdx
\* The users the answer's opponent summary describes.
OpponentIdx == {j \in UserIdx : Opponent(Users[j]) = resp.body.opponent}
Dist(i, j) == Abs(Users[i].rating - Users[j].rating)

\* The validation of a payload of each kind.
ValidFor(kind, p) ==
    CASE kind = "user" -> UserValid(p)
      [] kind = "game" -> GameValid(p)
      [] kind = "puzzle" -> PuzzleValid(p)
      [] kind = "lesson" -> LessonValid(p)
      [] kind = "chatmessage" -> ChatValid(p)

\* ------------------------------------------------------------------- claims

\* C1, as stated: a list with the empty filter, whatever its limit, holds
\* every record of its kind that create has answered with, under the
\* identifier create returned.
C1_ListAfterCreate_AnyLimit ==
    (IsList /\ DOMAIN ReqFilter = {}) =>
        \A c \in issued : c.kind = resp.kind => Lists(resp.body, c)

\* C1, amended: a list with the empty filter whose limit is at least the
\* number of records stored in the collection of its kind holds every record
\* of that kind that create has answered with, with the fields of the record
\* and the identifier create returned.
C1_ListAfterCreate ==
    (IsList /\ DOMAIN ReqFilter = {} /\ ReqLimit >= Len(store[resp.kind])) =>
        \A c \in issued : c.kind = resp.kind => Lists(resp.body, c)

\* Two chat messages were posted and a list with limit 2 answers with both.
C1_Witness ==
    /\ IsList /\ resp.kind = "chatmessage" /\ DOMAIN ReqFilter = {}
    /\ ReqLimit = 2
    /\ Cardinality({c \in issued : c.kind = "chatmessage"}) = 2
    /\ \A c \in issued : Lists(resp.body, c)

\* C2: when the requester and at least one other user exist, matchmake
\* answers found with an opponent that is a stored user, is not the requester
\* and is at least as close in rating to the requester as every other user.
C2_ClosestOpponent ==
    (IsMatch /\ OtherIdx # {}) =>
        /\ resp.body.found
        /\ resp.body.opponent.id # resp.req.user_id
        /\ \E j \in OtherIdx :
              /\ Opponent(Users[j]) = resp.body.opponent
              /\ \A m \in MeIdx : \A k \in OtherIdx : Dist(j, m) <= Dist(k, m)

\* A (1200), B (1300), C (1500): matchmake for A answers B.
C2_Witness ==
    /\ IsMatch
    /\ Len(Users) = 3
    /\ <<Users[1].rating, Users[2].rating, Users[3].rating>> = <<1200, 1300, 1500>>
    /\ resp.req.user_id = ExtId(Users[1])
    /\ resp.body.found
    /\ resp.body.opponent.id = ExtId(Users[2])

\* C3: among the other users at the minimal rating distance, matchmake
\* answers the one that comes first in the fetch order.
C3_FirstOfTies ==
    (IsMatch /\ OtherIdx # {}) =>
        /\ resp.body.found
        /\ \A j \in OpponentIdx : \A m \in MeIdx : \A k \in OtherIdx :
              Dist(k, m) = Dist(j, m) => j <= k

\* Fetch order A (1200), B (1300), C (1100): matchmake for A answers B.
C3_Witness ==
    /\ IsMatch
    /\ Len(Users) = 3
    /\ <<Users[1].rating, Users[2].rating, Users[3].rating>> = <<1200, 1300, 1100>>
    /\ resp.req.user_id = ExtId(Users[1])
    /\ resp.body.found
    /\ resp.body.opponent.id = ExtId(Users[2])

\* C4: a matchmake request whose user_id is the identifier of no fetched
\* user is answered with UserNotFound, never with a match or found = false.
C4_UserNotFound ==
    (resp.op = "matchmake" /\ connected /\ MeIdx = {}) =>
        resp.status = "UserNotFound"

\* Users exist, the request names the identifier of a record that is not a
\* user, and the answer is UserNotFound.
C4_Witness ==
    /\ resp.op = "matchmake" /\ resp.status = "UserNotFound"
    /\ Len(Users) >= 1
    /\ \E c \in issued : c.kind # "user" /\ c.id = resp.req.user_id

\* C5: when the requester is the only user stored, matchmake answers
\* found = false and raises no error.
C5_NoOtherUser ==
    (resp.op = "matchmake" /\ connected /\ Len(Users) = 1 /\ MeIdx = {1}) =>
        /\ resp.status = "ok"
        /\ resp.body = [found |-> FALSE]

C5_Witness ==
    /\ IsMatch /\ Len(Users) = 1 /\ MeIdx = {1}
    /\ resp.body = [found |-> FALSE]

C7_StoreUnavailable ==
    ~connected =>
        /\ \A c \in Collections : store[c] = <<>>
        /\ issued = {}
        /\ resp.op = "list" => resp.status = "StoreUnavailable"
        /\ (resp.op = "create" /\ ValidFor(resp.kind, resp.req)) =>
              resp.status = "StoreUnavailable"
        /\ resp.status \notin {"ok", "UserNotFound"}
        /\ resp.status = "ValidationError" =>
              (resp.op = "create" /\ ~ValidFor(resp.kind, resp.req))

C7_Witness ==
    /\ ~connected
    /\ resp.op = "create" /\ ValidFor(resp.kind, resp.req)
    /\ resp.status = "StoreUnavailable"

\* The rating a payload gives a User: the default when it is omitted.
PayloadRating(p) == Get(p, "rating", 1200)
RatingInRange(r) == r >= 100 /\ r <= 4000
IsCreateUser == resp.op = "create" /\ resp.kind = "user"

\* C8, as stated: constructing a User succeeds exactly when its rating is
\* within 100..4000.
C8_ValidExactlyWhenRatingInRange ==
    IsCreateUser =>
        (resp.status # "ValidationError" <=> RatingInRange(PayloadRating(resp.req)))

\* C8, amended: constructing a User whose other fields satisfy their
\* constraints succeeds exactly when its rating is within 100..4000 (omitted,
\* it is 1200), and every stored user has a rating within 100..4000.
C8_RatingRange ==
    /\ (IsCreateUser /\ UsernameOK(resp.req)) =>
          (resp.status # "ValidationError" <=> RatingInRange(PayloadRating(resp.req)))
    /\ \A i \in UserIdx : RatingInRange(Users[i].rating)

\* Users rated 100 and 4000 are stored, and a create with rating 4001 has
\* just been refused.
C8_Witness ==
    /\ IsCreateUser /\ UsernameOK(resp.req)
    /\ PayloadRating(resp.req) = 4001
    /\ resp.status = "ValidationError"
    /\ \E i \in UserIdx : Users[i].rating = 100
    /\ \E i \in UserIdx : Users[i].rating = 4000

\* The stored records, each named by its collection and its position.
StoredRecords == UNION {{<<c, i>> : i \in 1..Len(store[c])} : c \in Collections}
RecordAt(r) == store[r[1]][r[2]]

\* C9: two external identifiers are equal exactly when they denote the same
\* stored record; every identifier create returned, and every identifier a
\* list or matchmake answer exposes, denotes exactly one stored record.
C9_IdentifiersDenoteRecords ==
    /\ \A r1, r2 \in StoredRecords :
          ExtId(RecordAt(r1)) = ExtId(RecordAt(r2)) <=> r1 = r2
    /\ \A c \in issued :
          /\ Cardinality({r \in StoredRecords : ExtId(RecordAt(r)) = c.id}) = 1
          /\ Cardinality({d \in issued : d.id = c.id}) = 1
    /\ IsList =>
          \A i, j \in 1..Len(resp.body) :
              resp.body[i].id = resp.body[j].id <=> i = j
    /\ (IsMatch /\ resp.body.found) =>
          Cardinality({r \in StoredRecords : ExtId(RecordAt(r)) = resp.body.opponent.id}) = 1

\* Two records in different collections, and a list that shows one of them.
C9_Witness ==
    /\ Cardinality(StoredRecords) = 2
    /\ Cardinality({r[1] : r \in StoredRecords}) = 2
    /\ IsList /\ Len(resp.body) = 1

IsPrefix(s, t) == Len(s) <= Len(t) /\ SubSeq(t, 1, Len(s)) = s

\* C10: every step keeps every stored record, with its identifier and its
\* fields; a list or a matchmake leaves the store as it was; a create that
\* answers ok adds exactly one record, to the collection of its kind, and a
\* create that fails adds none.
C10_AppendOnly ==
    [][/\ \A c \in Collections : IsPrefix(store[c], store'[c])
       /\ resp'.op \in {"list", "matchmake"} => store' = store
       /\ (resp'.op = "create" /\ resp'.status = "ok") =>
             /\ Len(store'[resp'.kind]) = Len(store[resp'.kind]) + 1
             /\ \A c \in Collections \ {resp'.kind} : store'[c] = store[c]
       /\ (resp'.op = "create" /\ resp'.status # "ok") => store' = store
      ]_vars

\* A game was created after a user, and both records are stored.
C10_Witness ==
    /\ resp.op = "create" /\ resp.status = "ok" /\ resp.kind = "game"
    /\ Len(store["game"]) = 1
    /\ Len(store["user"]) = 1

====
